---- MODULE Spec2Model ----
(***************************************************************************)
(* A model of siilo's CMIS storage backend (siilo/storages/cmis.py):       *)
(* CmisStorage, the adapter over a cmislib repository, and CmisFile, the   *)
(* file-like handle that stages a remote document in a temporary local     *)
(* file, downloads it on open and uploads it on close.                     *)
(*                                                                         *)
(* Python strings are sequences of one-character strings, so that the      *)
(* path functions (startswith, os.path.basename, os.path.split, str.split) *)
(* are computed the way the library computes them.  A file-system or       *)
(* repository location is a sequence of such segments.                     *)
(***************************************************************************)
EXTENDS Integers, Sequences, FiniteSets, TLC

VARIABLES
    repo,      \* the remote repository: object location -> [kind, content]
    handles,   \* the CmisFile objects: handle id -> record of its fields
    tmpdirs,   \* the temporary directories that exist on the local disk
    log,       \* the repository calls issued so far, in order
    last       \* the last operation run by the caller and how it ended

vars == <<repo, handles, tmpdirs, log, last>>

------------------------------------------------------------------------------
(* Bounds of the model *)

\* the longest content a local file may reach through write and writelines
MaxLen == 2

\* repository calls are numbered within one operation; the call numbered
\* failAt raises a repository failure other than not-found (0: none does).
\* An upload to /a/b/f issues at most 6 calls.
MaxFail == 6

\* the longest log of repository calls from which the adapter's own
\* operations (delete, exists) are still run
MaxCalls == 3

Handles == {1, 2}

\* what one write call is given
Data == {<<1>>, <<2>>}

\* what one writelines call is given
Lines == {<< <<1>>, <<2>> >>, << <<2>> >>}

\* the names a caller opens
Names ==
    { <<"f">>,
      <<"/", "f">>,
      <<"/", "a", "/", "f">>,
      <<"/", "a", "/", "b", "/", "f">>,
      <<"a">>,
      <<"/", "a", "/", ".", ".">>,
      <<"/", "a", "/">> }

Modes ==
    { <<"r">>, <<"r", "b">>, <<"r", "+">>, <<"r", "+", "b">>,
      <<"w">>, <<"w", "b">>, <<"w", "+">>, <<"w", "+", "b">>,
      <<"a">>, <<"a", "b">>, <<"a", "+">>, <<"a", "+", "b">> }

------------------------------------------------------------------------------
(* Python's string and path functions *)

\* c in s
In(c, s) == \E i \in 1..Len(s) : s[i] = c

\* s.startswith('/')
StartsWithSlash(s) == Len(s) > 0 /\ s[1] = "/"

\* s.rfind('/') + 1: the index after the last slash, counting from 0
RFindSlash(s) ==
    IF In("/", s)
    THEN CHOOSE i \in 1..Len(s) :
            s[i] = "/" /\ \A j \in (i+1)..Len(s) : s[j] # "/"
    ELSE 0

\* s.rstrip('/')
RECURSIVE RStripSlash(_)
RStripSlash(s) ==
    IF Len(s) > 0 /\ s[Len(s)] = "/"
    THEN RStripSlash(SubSeq(s, 1, Len(s) - 1))
    ELSE s

AllSlashes(s) == \A i \in 1..Len(s) : s[i] = "/"

\* posixpath.basename(p)
Basename(p) == SubSeq(p, RFindSlash(p) + 1, Len(p))

\* posixpath.split(p): <<head, tail>>
PathSplit(p) ==
    LET i    == RFindSlash(p)
        head == SubSeq(p, 1, i)
        tail == SubSeq(p, i + 1, Len(p))
    IN  <<IF head # <<>> /\ ~AllSlashes(head) THEN RStripSlash(head) ELSE head,
          tail>>

\* s.split('/'): the pieces between slashes, empty pieces included
RECURSIVE StrSplit(_)
StrSplit(s) ==
    IF ~In("/", s)
    THEN <<s>>
    ELSE LET i == CHOOSE k \in 1..Len(s) :
                    s[k] = "/" /\ \A j \in 1..(k-1) : s[j] # "/"
         IN  <<SubSeq(s, 1, i - 1)>> \o StrSplit(SubSeq(s, i + 1, Len(s)))

------------------------------------------------------------------------------
(* The local file system *)

\* tempfile.mkdtemp(): a fresh directory of its own for each handle
TemporaryDirectory(h) == << <<"t", "m", "p">>, <<"d", ToString(h)>> >>

\* posixpath.join(directory, name), name holding no slash: the directory's
\* segments and then the name as the last one
PathJoin(dir, name) == Append(dir, name)

\* CmisFile._temporary_filename
TemporaryFilename(h, name) == PathJoin(TemporaryDirectory(h), Basename(name))

\* the location the operating system resolves a path to: an empty segment and
\* '.' stay where they are, '..' goes to the parent
RECURSIVE Resolve(_)
Resolve(p) ==
    IF p = <<>> THEN <<>>
    ELSE LET d == Resolve(SubSeq(p, 1, Len(p) - 1))
             s == p[Len(p)]
         IN  IF s = <<>> \/ s = <<".">> THEN d
             ELSE IF s = <<".", ".">>
                  THEN (IF d = <<>> THEN d ELSE SubSeq(d, 1, Len(d) - 1))
                  ELSE Append(d, s)

\* p is a proper descendant of the directory d
StrictlyInside(p, d) ==
    /\ Len(p) > Len(d)
    /\ SubSeq(p, 1, Len(d)) = d

\* whether a path names a directory: the temporary directories and what lies
\* above them are the directories of the model; io.open raises on such a path
IsDirectory(p) ==
    LET r == Resolve(p)
    IN  \E h \in Handles :
            /\ Len(r) <= Len(TemporaryDirectory(h))
            /\ r = SubSeq(TemporaryDirectory(h), 1, Len(r))

------------------------------------------------------------------------------
(* The repository (cmislib.Repository), as CmisStorage and CmisFile use it *)

Root == <<>>

Folder == [kind |-> "folder", content |-> <<>>]

Document(c) == [kind |-> "document", content |-> c]

\* drops the empty pieces of a split path
RECURSIVE NonEmpty(_)
NonEmpty(segs) ==
    IF segs = <<>> THEN <<>>
    ELSE IF Head(segs) = <<>> THEN NonEmpty(Tail(segs))
         ELSE <<Head(segs)>> \o NonEmpty(Tail(segs))

\* the location a path string addresses in the repository
Location(path) == NonEmpty(StrSplit(path))

\* repository.getObjectByPath(path) finds an object
Exists(r, path) == Location(path) \in DOMAIN r

\* obj.getTree().getResults(): the immediate children of an object
Children(r, obj) ==
    { c \in DOMAIN r : Len(c) = Len(obj) + 1 /\ SubSeq(c, 1, Len(obj)) = obj }

\* d.getName()
GetName(c) == c[Len(c)]

\* a search whose comparison of names never succeeds
FindNothing(r, obj, dirname) == {}

\* CmisFile._upload, the loop over rs.getResults(): the children of obj whose
\* name is dirname (folder_obj is the first of them, None when there is none)
FindChild(r, obj, dirname) ==
    { d \in Children(r, obj) : GetName(d) = dirname }

\* the repository after obj.createFolder(name)
CreateFolder(r, obj, name) ==
    [c \in DOMAIN r \cup {Append(obj, name)} |->
        IF c = Append(obj, name) THEN Folder ELSE r[c]]

\* the repository after obj.createDocument(name, contentFile=f)
CreateDocument(r, obj, name, c) ==
    [l \in DOMAIN r \cup {Append(obj, name)} |->
        IF l = Append(obj, name) THEN Document(c) ELSE r[l]]

\* a setContentStream that leaves the content as it is
KeepContentStream(r, obj, c) == r

\* the repository after obj.setContentStream(f)
SetContentStream(r, obj, c) == [r EXCEPT ![obj] = Document(c)]

\* obj.getContentStream(): the content as a sequence of chunks
RECURSIVE GetContentStream(_)
GetContentStream(c) ==
    IF c = <<>> THEN <<>>
    ELSE <<SubSeq(c, 1, 1)>> \o GetContentStream(Tail(c))

\* an entry of the log of repository calls: which handle issued it and from
\* which of its methods, the call, the object it is made on, its name or path
\* argument, the content it passes, and how it ended
Entry(h, by, call, obj, arg, data, res) ==
    [h |-> h, by |-> by, call |-> call, obj |-> obj, arg |-> arg,
     data |-> data, res |-> res]

\* a lookup that finds nothing
GetObjectMissing(r, name, k, failAt) ==
    IF k = failAt THEN "Error" ELSE "NotFound"

\* CmisStorage._get_object(name), as the k-th call of an operation whose
\* failAt-th call fails: "ok", "NotFound" (FileNotFoundError) or "Error" (any
\* other failure of the repository, which is not translated).  A call made on
\* an object of the wrong kind (a content stream of a folder, a child of a
\* document) is issued and fails as well.
GetObject(r, name, k, failAt) ==
    IF k = failAt THEN "Error"
    ELSE IF Exists(r, name) THEN "ok"
    ELSE "NotFound"

------------------------------------------------------------------------------
(* The handle (CmisFile) *)

\* a handle id before CmisFile(...) is called on it
NewHandle ==
    [st |-> "new", name |-> <<>>, mode |-> <<>>,
     should_download |-> FALSE, has_changed |-> FALSE,
     hasfile |-> FALSE, file |-> <<>>, pos |-> 0,
     cmis_object |-> {}, cmis_obj |-> {}]

\* CmisFile.__init__: a leading slash is added to a name that has none
NormalName(name) == IF StartsWithSlash(name) THEN name ELSE <<"/">> \o name

\* a handle that downloads in every mode
DownloadsAlways(mode) == TRUE

\* a test of the mode that downloads for 'r' only
DownloadsForRead(mode) == In("r", mode)

\* CmisFile.__init__: self._should_download
ShouldDownload(mode) == In("r", mode) \/ In("a", mode)

\* a handle that no mode marks as changed
NeverChanged(mode) == FALSE

\* CmisFile.__init__: self._has_changed
InitiallyChanged(mode) == In("w", mode)

\* a loop that writes the first chunk of a content stream and stops
WriteFirstChunk(chunks) == IF chunks = <<>> THEN <<>> ELSE Head(chunks)

\* the chunks of a content stream written one after the other
RECURSIVE WriteChunks(_)
WriteChunks(chunks) ==
    IF chunks = <<>> THEN <<>>
    ELSE Head(chunks) \o WriteChunks(Tail(chunks))

\* CmisFile._download on handle h with normalized name, against repository r,
\* the failAt-th repository call failing.  The result: what it raised
\* ("none", "NotFound", "IOError", "Error"), whether the temporary file now
\* exists and what it holds, self.cmis_obj, and the calls issued.
Download(h, name, r, failAt) ==
    LET none == [raised |-> "none", hasfile |-> TRUE, file |-> <<>>,
                 cmis_obj |-> {}, calls |-> <<>>]
        obj  == Location(name)
        got  == GetObject(r, name, 1, failAt)
        get  == Entry(h, "download", "getObjectByPath", <<>>, name, <<>>, got)
    IN  IF IsDirectory(TemporaryFilename(h, name))
        THEN [none EXCEPT !.raised = "IOError", !.hasfile = FALSE]
        ELSE IF got # "ok"
        THEN [none EXCEPT !.raised = got, !.calls = <<get>>]
        ELSE IF failAt = 2 \/ r[obj].kind # "document"
        THEN [none EXCEPT !.raised = "Error", !.cmis_obj = {obj},
                !.calls = <<get, Entry(h, "download", "getContentStream", obj,
                                       <<>>, <<>>, "Error")>>]
        ELSE [none EXCEPT !.cmis_obj = {obj},
                !.file = WriteChunks(GetContentStream(r[obj].content)),
                !.calls = <<get, Entry(h, "download", "getContentStream", obj,
                                       <<>>, <<>>, "ok")>>]

\* a download whose FileNotFoundError is raised in every mode
DownloadOrRaise(h, name, mode, changed, r, failAt) ==
    [d |-> Download(h, name, r, failAt), has_changed |-> changed]

\* CmisFile._download_or_mark_changed: a FileNotFoundError of the download is
\* swallowed in an append mode, and the handle marked as changed
DownloadOrMarkChanged(h, name, mode, changed, r, failAt) ==
    LET d == Download(h, name, r, failAt)
    IN  IF d.raised = "NotFound" /\ In("a", mode)
        THEN [d |-> [d EXCEPT !.raised = "none"], has_changed |-> TRUE]
        ELSE [d |-> d, has_changed |-> changed]

\* CmisFile._upload, the FileNotFoundError branch: the loop over the pieces of
\* dirpath.split('/') and then createDocument.  w is the walk so far: the
\* repository, the folder reached (obj), the calls issued, their number (k)
\* and what was raised.
RECURSIVE CreateWalk(_, _, _, _, _, _)
CreateWalk(h, w, segs, filename, data, failAt) ==
    IF w.raised # "none" THEN w
    ELSE IF segs = <<>>
    THEN \* self.cmis_obj = obj.createDocument(filename, contentFile=f)
         IF w.k + 1 = failAt \/ w.repo[w.obj].kind # "folder"
         THEN [w EXCEPT !.raised = "Error", !.k = w.k + 1,
                 !.calls = Append(w.calls, Entry(h, "upload", "createDocument",
                                     w.obj, filename, data, "Error"))]
         ELSE [w EXCEPT !.k = w.k + 1,
                 !.repo = CreateDocument(w.repo, w.obj, filename, data),
                 !.cmis_obj = {Append(w.obj, filename)},
                 !.calls = Append(w.calls, Entry(h, "upload", "createDocument",
                                     w.obj, filename, data, "ok"))]
    ELSE IF Head(segs) = <<>>
    THEN \* if dirname: an empty piece is skipped
         CreateWalk(h, w, Tail(segs), filename, data, failAt)
    ELSE LET dirname == Head(segs)
             found   == FindChild(w.repo, w.obj, dirname)
             tree(res) == Entry(h, "upload", "getTree", w.obj, <<>>, <<>>, res)
             mk(res) == Entry(h, "upload", "createFolder", w.obj, dirname,
                              <<>>, res)
         IN  IF w.k + 1 = failAt \/ w.repo[w.obj].kind # "folder"
             THEN [w EXCEPT !.raised = "Error", !.k = w.k + 1,
                            !.calls = Append(w.calls, tree("Error"))]
             ELSE IF found # {}
             THEN CreateWalk(h,
                     [w EXCEPT !.k = w.k + 1, !.obj = CHOOSE d \in found : TRUE,
                               !.calls = Append(w.calls, tree("ok"))],
                     Tail(segs), filename, data, failAt)
             ELSE IF w.k + 2 = failAt
             THEN [w EXCEPT !.raised = "Error", !.k = w.k + 2,
                     !.calls = w.calls \o <<tree("ok"), mk("Error")>>]
             ELSE CreateWalk(h,
                     [w EXCEPT !.k = w.k + 2,
                               !.repo = CreateFolder(w.repo, w.obj, dirname),
                               !.obj = Append(w.obj, dirname),
                               !.calls = w.calls \o <<tree("ok"), mk("ok")>>],
                     Tail(segs), filename, data, failAt)

\* CmisFile._upload on handle h: the temporary file's content data goes to
\* the object at name, replaced when the name resolves and created otherwise
Upload(h, name, data, r, failAt) ==
    LET w0  == [repo |-> r, obj |-> Root, calls |-> <<>>, k |-> 0,
                raised |-> "none", cmis_obj |-> {}]
        obj == Location(name)
        got == GetObject(r, name, 1, failAt)
        get == Entry(h, "upload", "getObjectByPath", <<>>, name, <<>>, got)
        w1  == [w0 EXCEPT !.k = 1, !.calls = <<get>>]
        set(res) == Entry(h, "upload", "setContentStream", obj, <<>>, data, res)
    IN  IF got = "Error" THEN [w1 EXCEPT !.raised = "Error"]
        ELSE IF got = "ok"
        THEN IF failAt = 2 \/ r[obj].kind # "document"
             THEN [w1 EXCEPT !.raised = "Error", !.k = 2, !.cmis_obj = {obj},
                             !.calls = <<get, set("Error")>>]
             ELSE [w1 EXCEPT !.k = 2, !.cmis_obj = {obj},
                             !.repo = SetContentStream(r, obj, data),
                             !.calls = <<get, set("ok")>>]
        ELSE CreateWalk(h, w1, StrSplit(PathSplit(name)[1]),
                        PathSplit(name)[2], data, failAt)

------------------------------------------------------------------------------
(* The local stream (io.open on the temporary file) *)

Readable(mode) == In("r", mode) \/ In("+", mode)

Writable(mode) == In("w", mode) \/ In("a", mode) \/ In("+", mode)

\* the file after data is written at position pos: an append mode writes at
\* the end wherever the position is, the other modes write over what is at pos
WriteAt(mode, file, pos, data) ==
    IF In("a", mode) THEN file \o data
    ELSE SubSeq(file, 1, pos) \o data
            \o SubSeq(file, pos + Len(data) + 1, Len(file))

\* the position after that write
PosAfterWrite(mode, file, pos, data) ==
    IF In("a", mode) THEN Len(file) + Len(data) ELSE pos + Len(data)

------------------------------------------------------------------------------
(* The operations *)

Result(op, h, res, ret) == [op |-> op, h |-> h, res |-> res, ret |-> ret]

\* CmisStorage.open(name, mode) = CmisFile(storage, name, mode): __init__ and
\* _open.  A constructor that raises leaves no handle to the caller ("failed").
Open(h, name, mode, failAt) ==
    /\ handles[h].st = "new"
    /\ LET n    == NormalName(name)
           sd   == ShouldDownload(mode)
           dl   == IF sd
                   THEN DownloadOrMarkChanged(h, n, mode,
                                              InitiallyChanged(mode), repo, failAt)
                   ELSE [d |-> [raised |-> "none", hasfile |-> FALSE,
                                file |-> <<>>, cmis_obj |-> {}, calls |-> <<>>],
                         has_changed |-> InitiallyChanged(mode)]
           \* io.open(self._temporary_filename, mode=mode, encoding=encoding)
           res  == IF dl.d.raised # "none" THEN dl.d.raised
                   ELSE IF IsDirectory(TemporaryFilename(h, n)) THEN "IOError"
                   ELSE IF ~dl.d.hasfile /\ In("r", mode) THEN "IOError"
                   ELSE "none"
           file == IF In("w", mode) THEN <<>> ELSE dl.d.file
       IN  /\ handles' = [handles EXCEPT ![h] =
                 [st |-> IF res = "none" THEN "open" ELSE "failed",
                  name |-> n, mode |-> mode,
                  should_download |-> sd, has_changed |-> dl.has_changed,
                  hasfile |-> dl.d.hasfile \/ res = "none",
                  file |-> file,
                  pos |-> IF In("a", mode) THEN Len(file) ELSE 0,
                  cmis_object |-> {}, cmis_obj |-> dl.d.cmis_obj]]
           /\ log' = log \o dl.d.calls
           \* FileNotFoundError(name) carries the name it was raised for
           /\ last' = Result("open", h, res,
                             IF res = "NotFound" THEN n ELSE <<>>)
    /\ tmpdirs' = tmpdirs \cup {h}
    /\ UNCHANGED repo

\* CmisFile.read()
Read(h) ==
    /\ handles[h].st \in {"open", "closed"}
    /\ LET f == handles[h]
       IN  IF f.st = "closed"
           THEN /\ last' = Result("read", h, "ValueError", <<>>)
                /\ UNCHANGED handles
           ELSE IF ~Readable(f.mode)
           THEN /\ last' = Result("read", h, "IOError", <<>>)
                /\ UNCHANGED handles
           ELSE /\ last' = Result("read", h, "none",
                                  SubSeq(f.file, f.pos + 1, Len(f.file)))
                /\ handles' = [handles EXCEPT ![h].pos =
                                  IF f.pos > Len(f.file) THEN f.pos ELSE Len(f.file)]
    /\ UNCHANGED <<repo, tmpdirs, log>>

\* a write that marks the handle changed after the stream has written, and
\* so not when the stream raises
StreamWriteThenMark(op, h, data) ==
    /\ handles[h].st \in {"open", "closed"}
    /\ LET f == handles[h]
       IN  IF f.st = "closed"
           THEN /\ last' = Result(op, h, "ValueError", <<>>)
                /\ UNCHANGED handles
           ELSE IF ~Writable(f.mode)
           THEN /\ last' = Result(op, h, "IOError", <<>>)
                /\ UNCHANGED handles
           ELSE /\ Len(WriteAt(f.mode, f.file, f.pos, data)) <= MaxLen
                /\ last' = Result(op, h, "none", <<>>)
                /\ handles' = [handles EXCEPT
                      ![h].has_changed = TRUE,
                      ![h].file = WriteAt(f.mode, f.file, f.pos, data),
                      ![h].pos = PosAfterWrite(f.mode, f.file, f.pos, data)]
    /\ UNCHANGED <<repo, tmpdirs, log>>

\* self._has_changed = True, and then the stream's write of data
StreamWrite(op, h, data) ==
    /\ handles[h].st \in {"open", "closed"}
    /\ LET f == handles[h]
       IN  IF f.st = "closed"
           THEN /\ last' = Result(op, h, "ValueError", <<>>)
                /\ handles' = [handles EXCEPT ![h].has_changed = TRUE]
           ELSE IF ~Writable(f.mode)
           THEN /\ last' = Result(op, h, "IOError", <<>>)
                /\ handles' = [handles EXCEPT ![h].has_changed = TRUE]
           ELSE /\ Len(WriteAt(f.mode, f.file, f.pos, data)) <= MaxLen
                /\ last' = Result(op, h, "none", <<>>)
                /\ handles' = [handles EXCEPT
                      ![h].has_changed = TRUE,
                      ![h].file = WriteAt(f.mode, f.file, f.pos, data),
                      ![h].pos = PosAfterWrite(f.mode, f.file, f.pos, data)]
    /\ UNCHANGED <<repo, tmpdirs, log>>

\* CmisFile.write(data)
Write(h, data) == StreamWrite("write", h, data)

\* the stream's writelines(lines) writes the lines one after the other
RECURSIVE JoinLines(_)
JoinLines(lines) ==
    IF lines = <<>> THEN <<>>
    ELSE Head(lines) \o JoinLines(Tail(lines))

\* CmisFile.writelines(lines)
Writelines(h, lines) == StreamWrite("writelines", h, JoinLines(lines))

\* CmisFile._remove_temporary_directory
RemoveTemporaryDirectory(dirs, h) == dirs \ {h}

\* a closed that never becomes true
ClosedNever(f) == FALSE

\* CmisFile.closed: the local stream's closed
Closed(f) == f.st = "closed"

\* What the caller sees of op, which has run close(): what close() raised, or
\* else the failure exc the caller's own code had raised, if any
Outcome(op, h, raised, exc) ==
    Result(op, h, IF raised # "none" THEN raised
                  ELSE IF exc THEN "CallerError" ELSE "none", <<>>)

\* close() with its two tests given: closed is 'self.closed' and changed is
\* 'self._has_changed'; op is the method the caller called and exc says
\* whether the caller's code had failed
DoClose(h, failAt, closed, changed, op, exc) ==
    /\ handles[h].st \in {"open", "closed"}
    /\ LET f == handles[h]
           u == Upload(h, f.name, f.file, repo, failAt)
       IN  IF closed
           THEN \* if not self.closed: nothing else is done
                /\ last' = Outcome(op, h, "none", exc)
                /\ UNCHANGED <<repo, handles, tmpdirs, log>>
           ELSE IF ~changed
           THEN /\ handles' = [handles EXCEPT ![h].st = "closed"]
                /\ tmpdirs' = RemoveTemporaryDirectory(tmpdirs, h)
                /\ last' = Outcome(op, h, "none", exc)
                /\ UNCHANGED <<repo, log>>
           ELSE \* self._upload() raising, the removal after it is not run
                \* self.cmis_obj keeps what the download set until the
                \* upload assigns it
                /\ handles' = [handles EXCEPT ![h].st = "closed",
                      ![h].cmis_obj = IF u.cmis_obj = {} THEN f.cmis_obj
                                      ELSE u.cmis_obj]
                /\ repo' = u.repo
                /\ log' = log \o u.calls
                /\ last' = Outcome(op, h, u.raised, exc)
                /\ tmpdirs' = IF u.raised = "none"
                              THEN RemoveTemporaryDirectory(tmpdirs, h)
                              ELSE tmpdirs

\* close() without its test of self.closed
CloseAgain(h, failAt) ==
    DoClose(h, failAt, FALSE, handles[h].has_changed, "close", FALSE)

\* close() without its test of self._has_changed
CloseUploading(h, failAt) ==
    DoClose(h, failAt, Closed(handles[h]), TRUE, "close", FALSE)

\* CmisFile.close()
Close(h, failAt) ==
    DoClose(h, failAt, Closed(handles[h]), handles[h].has_changed,
            "close", FALSE)

\* CmisFile.__exit__(exc_type, exc_value, traceback), at the end of a with
\* block: it calls close() and returns None, so a failure of the block (exc)
\* goes on to the caller
Exit(h, exc, failAt) ==
    DoClose(h, failAt, Closed(handles[h]), handles[h].has_changed,
            "exit", exc)

------------------------------------------------------------------------------
(* The specification *)

\* the repositories a run starts from
InitRepos ==
    LET a == <<"a">>
        b == <<"b">>
        f == <<"f">>
    IN  { (<<>> :> Folder),
          (<<>> :> Folder) @@ (<<f>> :> Document(<<1>>)),
          (<<>> :> Folder) @@ (<<a>> :> Folder),
          (<<>> :> Folder) @@ (<<a>> :> Document(<<2>>)),
          (<<>> :> Folder) @@ (<<a>> :> Folder) @@ (<<a, f>> :> Document(<<2, 1>>)),
          (<<>> :> Folder) @@ (<<a>> :> Folder) @@ (<<a, b>> :> Folder)
              @@ (<<a, b, f>> :> Document(<<>>)) }

Init ==
    /\ repo \in InitRepos
    /\ handles = [h \in Handles |-> NewHandle]
    /\ tmpdirs = {}
    /\ log = <<>>
    /\ last = Result("init", 0, "none", <<>>)

\* the handle of a run with one handle
First == CHOOSE h \in Handles : \A g \in Handles : h <= g

Next ==
    \/ \E name \in Names, mode \in Modes, failAt \in 0..MaxFail :
          Open(First, name, mode, failAt)
    \/ \E h \in Handles : Read(h)
    \/ \E h \in Handles, data \in Data : Write(h, data)
    \/ \E h \in Handles, lines \in Lines : Writelines(h, lines)
    \/ \E h \in Handles, failAt \in 0..MaxFail : Close(h, failAt)
    \/ \E h \in Handles, exc \in BOOLEAN, failAt \in 0..MaxFail :
          Exit(h, exc, failAt)

Spec == Init /\ [][Next]_vars

\* the handle opened after the first one is closed
Second == CHOOSE h \in Handles : h # First

\* A caller that writes and reads back: it opens a first handle in a mode
\* with 'w', uses it and closes it, and when that close has returned opens a
\* second handle on the same name in a mode without 'w' and 'a', reads it
\* and closes it.  (The second handle issues at most two repository calls,
\* both in its download.)
WriteThenRead ==
    \/ /\ handles[Second].st = "new"
       /\ \/ \E name \in Names, mode \in { m \in Modes : In("w", m) },
                failAt \in 0..MaxFail : Open(First, name, mode, failAt)
          \/ Read(First)
          \/ \E data \in Data : Write(First, data)
          \/ \E lines \in Lines : Writelines(First, lines)
          \/ \E failAt \in 0..MaxFail : Close(First, failAt)
    \/ /\ handles[First].st = "closed"
       /\ First \notin tmpdirs
       /\ last.op = "close"
       /\ \E name \in Names,
             mode \in { m \in Modes : ~In("w", m) /\ ~In("a", m) },
             failAt \in 0..2 :
                /\ NormalName(name) = handles[First].name
                /\ Open(Second, name, mode, failAt)
    \/ Read(Second)
    \/ Close(Second, 0)

RoundTripSpec == Init /\ [][WriteThenRead]_vars

------------------------------------------------------------------------------
(* The adapter's own operations (CmisStorage.delete, CmisStorage.exists) *)

\* the names delete and exists are given, as the caller writes them
StorageNames == { <<"f">>, <<"/", "a", "/", "f">>, <<"/", "a">> }

\* the repository without the object obj and what lies under it
Remove(r, obj) ==
    [c \in { d \in DOMAIN r : ~(Len(d) >= Len(obj) /\ SubSeq(d, 1, Len(obj)) = obj) }
        |-> r[c]]

\* how obj.delete(allVersions=all_versions) ends in repository r: "ok",
\* "RuntimeException" when the server reports the object as already removed
\* (gone), "Error" for another failure (failed); a folder that has children
\* is not deleted
DeleteCall(r, obj, gone, failed) ==
    IF gone THEN "RuntimeException"
    ELSE IF failed \/ Children(r, obj) # {} \/ obj = Root THEN "Error"
    ELSE "ok"

\* a delete that lets the RuntimeException through
DeleteUntranslated(res) == IF res = "ok" THEN "none" ELSE "Error"

\* CmisStorage.delete, the try around obj.delete: a RuntimeException becomes
\* FileNotFoundError, any other failure propagates
DeleteRaises(res) ==
    IF res = "ok" THEN "none"
    ELSE IF res = "RuntimeException" THEN "NotFound"
    ELSE "Error"

\* str(all_versions), as the delete call is logged
Flag(b) == IF b THEN <<"True">> ELSE <<"False">>

\* CmisStorage.delete(name, all_versions)
Delete(name, all_versions, failAt, gone) ==
    /\ Len(log) < MaxCalls
    /\ LET got == GetObject(repo, name, 1, failAt)
           obj == Location(name)
           get == Entry(0, "delete", "getObjectByPath", <<>>, name, <<>>, got)
           res == DeleteCall(repo, obj, gone, failAt = 2)
           del == Entry(0, "delete", "delete", obj, Flag(all_versions), <<>>, res)
       IN  IF got # "ok"
           THEN /\ log' = Append(log, get)
                /\ last' = Result("delete", 0, got,
                                  IF got = "NotFound" THEN name ELSE <<>>)
                /\ UNCHANGED repo
           ELSE /\ log' = log \o <<get, del>>
                /\ last' = Result("delete", 0, DeleteRaises(res),
                                  IF DeleteRaises(res) = "NotFound"
                                  THEN name ELSE <<>>)
                /\ repo' = IF res = "Error" THEN repo ELSE Remove(repo, obj)
    /\ UNCHANGED <<handles, tmpdirs>>

\* an exists that answers False to every failure of the lookup
ExistsSwallowing(got) ==
    [res |-> "none", ret |-> IF got = "ok" THEN <<"True">> ELSE <<"False">>]

\* CmisStorage.exists: what it raises and returns for each end of _get_object
ExistsReturns(got) ==
    IF got = "ok" THEN [res |-> "none", ret |-> <<"True">>]
    ELSE IF got = "NotFound" THEN [res |-> "none", ret |-> <<"False">>]
    ELSE [res |-> "Error", ret |-> <<>>]

\* CmisStorage.exists(name)
StorageExists(name, failAt) ==
    /\ Len(log) < MaxCalls
    /\ LET got == GetObject(repo, name, 1, failAt)
       IN  /\ log' = Append(log, Entry(0, "exists", "getObjectByPath", <<>>,
                                       name, <<>>, got))
           /\ last' = Result("exists", 0, ExistsReturns(got).res,
                             ExistsReturns(got).ret)
    /\ UNCHANGED <<repo, handles, tmpdirs>>

StorageNext ==
    \/ \E name \in StorageNames, all_versions \in BOOLEAN, failAt \in 0..2,
          gone \in BOOLEAN : Delete(name, all_versions, failAt, gone)
    \/ \E name \in StorageNames, failAt \in 0..1 : StorageExists(name, failAt)

StorageSpec == Init /\ [][StorageNext]_vars

------------------------------------------------------------------------------
(* Two handles in use at once *)

\* the names and the modes that the callers of the two handles open
SharedNames == { <<"f">>, <<"/", "a", "/", "f">> }

SharedModes == { <<"r", "+">>, <<"w">>, <<"a">> }

\* Two callers in one thread, each with a handle of its own on the same
\* remote path: every operation runs to its end before the next one begins,
\* and the operations of the two handles follow each other in any order.
\* A caller writes to its handle while it is open.
Interleaved ==
    \/ \E h \in Handles, name \in SharedNames, mode \in SharedModes :
          /\ \A g \in Handles \ {h} :
                handles[g].st = "new" \/ handles[g].name = NormalName(name)
          /\ Open(h, name, mode, 0)
    \/ \E h \in Handles, data \in Data :
          handles[h].st = "open" /\ Write(h, data)
    \/ \E h \in Handles, failAt \in 0..1 : Close(h, failAt)

InterleavedSpec == Init /\ [][Interleaved]_vars

------------------------------------------------------------------------------
(* What the properties are stated in *)

\* the calls of log l that handle h issued from its method by
CallsBy(l, h, by) == SelectSeq(l, LAMBDA e : e.h = h /\ e.by = by)

\* the entries of a sequence of calls that are calls of the given kind
CallsOf(l, call) == SelectSeq(l, LAMBDA e : e.call = call)

\* the calls a step adds to the log
NewCalls == SubSeq(log', Len(log) + 1, Len(log'))

\* the step is the close() of the open handle h
ClosingStep(h) == handles[h].st = "open" /\ handles'[h].st = "closed"

\* the step is the construction of handle h
OpeningStep(h) == handles[h].st = "new" /\ handles'[h].st # "new"

WriteModes == { m \in Modes : In("w", m) }

AppendModes == { m \in Modes : In("a", m) }

ReadModes == Modes \ (WriteModes \cup AppendModes)

------------------------------------------------------------------------------
(* C1 *)

\* a call of the sequence l failed with something else than not-found
Failed(l) == \E i \in 1..Len(l) : l[i].res = "Error"

\* C1: when the upload run by close() fails, the handle's temporary directory
\* is removed all the same, and the failure reaches the caller of close().
C1_CleanupWhenUploadFails ==
    [][\A h \in Handles :
        (ClosingStep(h) /\ Failed(CallsBy(NewCalls, h, "upload"))) =>
            /\ h \notin tmpdirs'
            /\ last' = Result("close", h, "Error", <<>>)]_vars

------------------------------------------------------------------------------
(* C2 *)

\* C2: for every name given to open, the path of the handle's temporary file
\* is a proper descendant of the handle's temporary directory.
C2_TemporaryFileInsideDirectory ==
    \A h \in Handles :
        handles[h].st # "new" =>
            StrictlyInside(Resolve(TemporaryFilename(h, handles[h].name)),
                           TemporaryDirectory(h))

------------------------------------------------------------------------------
(* C3 *)

\* C3: close() on a closed handle raises nothing, issues no repository call
\* and removes no directory, in every mode and whatever has_changed is.
C3_RecloseIsNoop ==
    [][\A h \in Handles :
        (handles[h].st = "closed" /\ last'.op = "close" /\ last'.h = h) =>
            /\ last'.res = "none"
            /\ log' = log
            /\ repo' = repo
            /\ tmpdirs' = tmpdirs
            /\ handles' = handles]_vars

\* a handle closed unchanged, marked as changed by a write after that, and
\* closed once more: nothing was uploaded
C3_Witness ==
    \E h \in Handles :
        /\ handles[h].st = "closed"
        /\ handles[h].has_changed
        /\ CallsBy(log, h, "upload") = <<>>
        /\ last = Result("close", h, "none", <<>>)

------------------------------------------------------------------------------
(* C4 *)

\* C4: the upload runs at most once over the life of a handle, only inside
\* close(), and only when has_changed is true at that close; a close() with
\* has_changed false issues no repository call.
C4_UploadAtMostOnceAtClose ==
    [][\A h \in Handles :
        /\ Len(CallsOf(CallsBy(log', h, "upload"), "getObjectByPath")) <= 1
        /\ CallsBy(NewCalls, h, "upload") # <<>> =>
              /\ ClosingStep(h)
              /\ handles[h].has_changed
              \* close() itself, or the close() that __exit__ calls
              /\ last'.op \in {"close", "exit"} /\ last'.h = h
              /\ CallsBy(log, h, "upload") = <<>>
        /\ (ClosingStep(h) /\ ~handles[h].has_changed) =>
              (log' = log /\ repo' = repo)]_vars

\* a handle opened unchanged, changed by a write, and closed with its upload
C4_Witness ==
    \E h \in Handles :
        /\ handles[h].st = "closed"
        /\ handles[h].mode = <<"r", "+">>
        /\ handles[h].file # <<>>
        /\ CallsOf(CallsBy(log, h, "download"), "getObjectByPath") # <<>>
        /\ Len(CallsOf(CallsBy(log, h, "upload"), "getObjectByPath")) = 1
        /\ h \notin tmpdirs

------------------------------------------------------------------------------
(* C5 *)

\* C5: the download runs at most once over the life of a handle and only
\* while the handle is opened, before its local stream is (a download that
\* raises leaves no stream); in a mode without 'r' and 'a' it never runs.
C5_DownloadAtMostOnceAtOpen ==
    [][\A h \in Handles :
        /\ Len(CallsOf(CallsBy(log', h, "download"), "getObjectByPath")) <= 1
        /\ CallsBy(NewCalls, h, "download") # <<>> =>
              /\ OpeningStep(h)
              /\ last'.op = "open" /\ last'.h = h
              /\ last'.res # "none" => handles'[h].st = "failed"
        /\ handles'[h].mode \in WriteModes => CallsBy(log', h, "download") = <<>>
        /\ (OpeningStep(h) /\ handles'[h].mode \notin WriteModes
                /\ ~IsDirectory(TemporaryFilename(h, handles'[h].name))) =>
              Len(CallsOf(CallsBy(log', h, "download"), "getObjectByPath")) = 1]_vars

\* a handle opened with a download, used and closed: one download
C5_Witness ==
    \E h \in Handles :
        /\ handles[h].st = "closed"
        /\ handles[h].has_changed
        /\ Len(CallsOf(CallsBy(log, h, "download"), "getContentStream")) = 1
        /\ CallsBy(log, h, "upload") # <<>>

------------------------------------------------------------------------------
(* C6 *)

\* C6: a handle opened in a mode with 'w' issues no repository call from its
\* opening to its close(), and its close() issues exactly one
\* getObjectByPath, on the handle's name: found, the only other call is one
\* setContentStream; not found, no setContentStream is issued and what
\* follows creates the object.
C6_WriteModeResolvesOnceAtClose ==
    \A h \in Handles :
        LET f  == handles[h]
            up == CallsBy(log, h, "upload")
        IN  (f.st \in {"open", "closed"} /\ f.mode \in WriteModes) =>
              /\ CallsBy(log, h, "download") = <<>>
              /\ f.st = "open" => up = <<>>
              /\ f.st = "closed" =>
                    /\ Len(CallsOf(up, "getObjectByPath")) = 1
                    /\ up[1].call = "getObjectByPath" /\ up[1].arg = f.name
                    /\ up[1].res = "ok" =>
                          /\ Len(up) = 2
                          /\ up[2].call = "setContentStream"
                    /\ up[1].res = "NotFound" =>
                          /\ CallsOf(up, "setContentStream") = <<>>
                          /\ Len(up) > 1
                    /\ up[1].res = "Error" => Len(up) = 1

\* a handle opened in a write mode, never written to, and closed: its one
\* lookup found nothing and the document was created
C6_Witness ==
    \E h \in Handles :
        LET up == CallsBy(log, h, "upload")
        IN  /\ handles[h].st = "closed"
            /\ handles[h].mode = <<"w", "+", "b">>
            /\ handles[h].file = <<>>
            /\ Len(up) > 1
            /\ up[1].res = "NotFound"
            /\ up[Len(up)].call = "createDocument"

------------------------------------------------------------------------------
(* C7 *)

\* C7: opening a name that does not resolve raises NotFound with the
\* normalized name in a mode without 'a'; in a mode with 'a' it raises
\* nothing and sets has_changed, and a close() that then returns has created
\* the document at that name, with what the local file holds.
C7_MissingPathOnOpen ==
    \A h \in Handles :
        LET f  == handles[h]
            dl == CallsBy(log, h, "download")
            up == CallsBy(log, h, "upload")
        IN  (dl # <<>> /\ dl[1].res = "NotFound") =>
              IF f.mode \notin AppendModes
              THEN /\ f.st = "failed"
                   /\ (last.op = "open" /\ last.h = h) =>
                        (last.res = "NotFound" /\ last.ret = NormalName(f.name)
                            /\ StartsWithSlash(last.ret))
              ELSE /\ f.st \in {"open", "closed"}
                   /\ f.has_changed
                   /\ (last.op = "open" /\ last.h = h) => last.res = "none"
                   /\ (f.st = "closed" /\ h \notin tmpdirs) =>
                        \E i \in 1..Len(up) :
                            /\ up[i].call = "createDocument"
                            /\ up[i].res = "ok"
                            /\ Append(up[i].obj, up[i].arg) = Location(f.name)
                            /\ up[i].data = f.file

\* a handle opened for appending on a missing name and closed without a
\* write: the document is there, empty
C7_Witness ==
    \E h \in Handles :
        /\ handles[h].st = "closed"
        /\ handles[h].mode \in AppendModes
        /\ h \notin tmpdirs
        /\ CallsBy(log, h, "download")[1].res = "NotFound"
        /\ last.op = "close"
        /\ Location(handles[h].name) \in DOMAIN repo
        /\ repo[Location(handles[h].name)] = Document(<<>>)

------------------------------------------------------------------------------
(* C8 *)

\* C8: when a handle opened in a mode with 'w' was closed, and its close()
\* returned, a handle opened after that on the same name for reading reads,
\* from its beginning to its end, exactly what the first handle's file held
\* at its close: whether the name existed before or not.
C8_RoundTrip ==
    [][\A h, g \in Handles :
        (/\ h # g
         /\ handles[h].st = "closed" /\ handles[h].mode \in WriteModes
         /\ h \notin tmpdirs
         /\ handles[g].st = "open" /\ handles[g].mode \in ReadModes
         /\ handles[g].name = handles[h].name
         /\ handles[g].pos = 0
         /\ last'.op = "read" /\ last'.h = g) =>
            /\ last'.res = "none"
            /\ last'.ret = handles[h].file
            /\ handles'[g].pos = Len(handles[h].file)]_vars

\* /a/f, which held <<2, 1>>, was written <<1, 2>> and read back as <<1, 2>>
C8_Witness ==
    /\ handles[First].st = "closed"
    /\ handles[First].name = <<"/", "a", "/", "f">>
    /\ handles[First].file = <<1, 2>>
    /\ handles[Second].name = <<"/", "a", "/", "f">>
    /\ last = Result("read", Second, "none", <<1, 2>>)

------------------------------------------------------------------------------
(* C9 *)

\* the j-th smallest member of a set of numbers
Nth(S, j) == CHOOSE i \in S : Cardinality({k \in S : k < i}) = j - 1

\* C9: when close() uploads to a name that does not resolve, the folders are
\* enumerated from the root down the directory segments of the name in order,
\* one createFolder is issued for each segment that is not in the repository
\* (under its parent, with its name) and none for a segment that is, and at
\* the end one createDocument, with the last segment as its name, on the
\* folder of the last directory segment.  A close() that raises has issued
\* the beginning of these calls.
C9_CreationProtocol ==
    [][\A h \in Handles :
        LET f     == handles[h]
            up    == CallsBy(NewCalls, h, "upload")
            segs  == Location(f.name)
            dirs  == SubSeq(segs, 1, Len(segs) - 1)
            miss  == { i \in 1..Len(dirs) : SubSeq(segs, 1, i) \notin DOMAIN repo }
            trees == CallsOf(up, "getTree")
            mk    == CallsOf(up, "createFolder")
            docs  == CallsOf(up, "createDocument")
        IN  (ClosingStep(h) /\ up # <<>> /\ up[1].res = "NotFound") =>
              /\ Len(trees) <= Len(dirs)
              /\ \A j \in 1..Len(trees) : trees[j].obj = SubSeq(segs, 1, j - 1)
              /\ Len(mk) <= Cardinality(miss)
              /\ \A j \in 1..Len(mk) :
                    /\ mk[j].obj = SubSeq(segs, 1, Nth(miss, j) - 1)
                    /\ mk[j].arg = segs[Nth(miss, j)]
              /\ Len(docs) <= 1
              /\ last'.res = "none" =>
                    /\ Len(trees) = Len(dirs)
                    /\ Len(mk) = Cardinality(miss)
                    /\ Len(docs) = 1
                    /\ up[Len(up)] = Entry(h, "upload", "createDocument", dirs,
                                           segs[Len(segs)], f.file, "ok")
                    /\ Len(up) = 1 + Len(trees) + Len(mk) + 1]_vars

\* the upload of /a/b/f to a repository that holds the folder a and not the
\* folder b: one createFolder, for b under a, and the document
C9_Witness ==
    \E h \in Handles :
        LET up == CallsBy(log, h, "upload")
        IN  /\ handles[h].st = "closed"
            /\ h \notin tmpdirs
            /\ Location(handles[h].name) = << <<"a">>, <<"b">>, <<"f">> >>
            /\ Len(CallsOf(up, "getTree")) = 2
            /\ Len(CallsOf(up, "createFolder")) = 1
            /\ CallsOf(up, "createFolder")[1].obj = << <<"a">> >>
            /\ up[Len(up)].call = "createDocument"

------------------------------------------------------------------------------
(* C10 *)

\* C10: an upload whose lookup is answered issues, when the name resolves,
\* exactly one setContentStream, on the object at that name and with the
\* local file's content, and no createFolder or createDocument; when the name
\* does not resolve, no setContentStream and at most one createDocument,
\* exactly one when close() returns.  In every mode.
C10_ReplaceOrCreate ==
    [][\A h \in Handles :
        LET f    == handles[h]
            up   == CallsBy(NewCalls, h, "upload")
            sets == CallsOf(up, "setContentStream")
            docs == CallsOf(up, "createDocument")
        IN  (ClosingStep(h) /\ up # <<>> /\ up[1].res # "Error") =>
              IF Exists(repo, f.name)
              THEN /\ Len(sets) = 1
                   /\ sets[1].obj = Location(f.name)
                   /\ sets[1].data = f.file
                   /\ docs = <<>>
                   /\ CallsOf(up, "createFolder") = <<>>
              ELSE /\ sets = <<>>
                   /\ Len(docs) <= 1
                   /\ last'.res = "none" => Len(docs) = 1]_vars

\* a handle opened for appending on an existing document, written to, and
\* closed: one setContentStream with the old content and the new
C10_Witness ==
    \E h \in Handles :
        LET up == CallsBy(log, h, "upload")
        IN  /\ handles[h].st = "closed"
            /\ handles[h].mode = <<"a">>
            /\ h \notin tmpdirs
            /\ Len(up) = 2
            /\ up[2].call = "setContentStream"
            /\ up[2].data = <<1, 2>>
            /\ repo[up[2].obj] = Document(<<1, 2>>)

------------------------------------------------------------------------------
(* C11 *)

\* C11: delete(path) raises NotFound with the caller's path when the path
\* does not resolve, and then issues no delete call, and when the path
\* resolves and the delete call reports the object as already gone; when the
\* path resolves, exactly one delete call is issued, on the object at the
\* path and with the caller's all_versions.
C11_DeleteNotFound ==
    [][\A name \in StorageNames, all_versions \in BOOLEAN, failAt \in 0..2,
          gone \in BOOLEAN :
        Delete(name, all_versions, failAt, gone) =>
          LET new  == NewCalls
              dels == CallsOf(new, "delete")
          IN  /\ new[1].call = "getObjectByPath" /\ new[1].arg = name
              /\ (new[1].res # "Error" /\ ~Exists(repo, name)) =>
                    /\ last' = Result("delete", 0, "NotFound", name)
                    /\ dels = <<>>
                    /\ repo' = repo
              /\ (new[1].res # "Error" /\ Exists(repo, name)) =>
                    /\ Len(new) = 2 /\ Len(dels) = 1
                    /\ dels[1].obj = Location(name)
                    /\ dels[1].arg = Flag(all_versions)
                    /\ dels[1].res = "RuntimeException" =>
                          last' = Result("delete", 0, "NotFound", name)
                    /\ dels[1].res = "ok" =>
                          /\ last' = Result("delete", 0, "none", <<>>)
                          /\ Location(name) \notin DOMAIN repo'
              /\ new[1].res = "Error" =>
                    (dels = <<>> /\ last'.res = "Error")]_vars

\* a delete of all versions of 'f', which was there, reported as already gone:
\* NotFound with the name as the caller wrote it
C11_Witness ==
    /\ last = Result("delete", 0, "NotFound", <<"f">>)
    /\ Len(log) = 2
    /\ log[2].call = "delete"
    /\ log[2].arg = Flag(TRUE)
    /\ log[2].res = "RuntimeException"

------------------------------------------------------------------------------
(* C12 *)

\* C12: exists(path) returns True exactly when the lookup of the path
\* succeeds and False exactly when it reports not-found; another failure of
\* the lookup reaches the caller; the repository is left as it was.
C12_Exists ==
    [][(last'.op = "exists" /\ Len(log') > Len(log)) =>
        LET e == log'[Len(log')]
        IN  /\ Len(log') = Len(log) + 1
            /\ e.call = "getObjectByPath"
            /\ repo' = repo
            /\ e.res = "Error" => last'.res = "Error"
            /\ e.res # "Error" =>
                  /\ last'.res = "none"
                  /\ (last'.ret = <<"True">>) = Exists(repo, e.arg)
                  /\ (last'.ret = <<"False">>) = ~Exists(repo, e.arg)]_vars

\* exists on a name whose lookup failed with something else than not-found
C12_Witness ==
    /\ last = Result("exists", 0, "Error", <<>>)
    /\ Len(log) = 2
    /\ log[1].by = "exists" /\ log[1].res = "NotFound"
    /\ log[2].by = "exists" /\ log[2].res = "Error"

------------------------------------------------------------------------------
(* C13 *)

\* the objects that the calls of handle h have resolved or created
Obtained(h) ==
    { Location(log[i].arg) : i \in { j \in 1..Len(log) :
          log[j].h = h /\ log[j].call = "getObjectByPath" /\ log[j].res = "ok" } }
    \cup
    { Append(log[i].obj, log[i].arg) : i \in { j \in 1..Len(log) :
          log[j].h = h /\ log[j].call = "createDocument" /\ log[j].res = "ok" } }

\* C13: the attribute cmis_object of a handle is None until a lookup of the
\* handle succeeds, and refers to the remote object once a download or an
\* upload has resolved or created it.
C13_CmisObjectRefers ==
    \A h \in Handles :
        handles[h].st \in {"open", "closed"} =>
            handles[h].cmis_object = Obtained(h)

------------------------------------------------------------------------------
(* C14 *)

\* C14: when close() of a handle has returned normally, or a with block has
\* released the handle (its __exit__ has returned, the block having failed or
\* not), the handle's temporary directory does not exist.
C14_NoDirectoryAfterClose ==
    (/\ last.op \in {"close", "exit"}
     /\ last.res \in {"none", "CallerError"}) => last.h \notin tmpdirs

------------------------------------------------------------------------------
(* C15 *)

\* the close of handle h has completed: the handle is closed and its
\* temporary directory removed
Completed(h) == handles[h].st = "closed" /\ h \notin tmpdirs

\* C15: two handles on the same remote path, both mutated: when the close of
\* one completes after the close (with its upload) of the other has
\* completed, the remote content is the local content of the handle that
\* closes now, in whatever order the operations of the two were run.
C15_LastCloserWins ==
    [][\A h \in Handles : \A g \in Handles \ {h} :
          (/\ ClosingStep(h)
           /\ handles[h].has_changed
           /\ last'.res = "none"
           /\ Completed(g)
           /\ handles[g].name = handles[h].name
           /\ CallsBy(log, g, "upload") # <<>>) =>
              /\ Location(handles[h].name) \in DOMAIN repo'
              /\ repo'[Location(handles[h].name)] = Document(handles[h].file)
      ]_vars

\* both handles were opened on /a/f before either was written, the second
\* one was closed first and has uploaded <<2>>, and the first one, closed
\* last with <<1>>, has replaced it
C15_Witness ==
    /\ Completed(First) /\ Completed(Second)
    /\ handles[First].name = <<"/", "a", "/", "f">>
    /\ handles[Second].name = handles[First].name
    /\ handles[First].file = <<1>> /\ handles[Second].file = <<2>>
    /\ last = Result("close", First, "none", <<>>)
    /\ repo[<< <<"a">>, <<"f">> >>] = Document(<<1>>)
    /\ CallsOf(CallsBy(log, Second, "upload"), "createDocument") # <<>>
    /\ CallsOf(CallsBy(log, First, "upload"), "setContentStream") # <<>>

------------------------------------------------------------------------------
(* C16 *)

\* C16: an open that has failed (in its download or in opening the local
\* stream) leaves no temporary directory behind, so that every temporary
\* directory belongs to a handle that is open.
C16_NoDirectoryAfterFailedOpen ==
    \A h \in Handles : handles[h].st = "failed" => h \notin tmpdirs

------------------------------------------------------------------------------
(* C17 *)

\* C17: every object that the creation protocol of an upload descends into
\* (it enumerates its children) or calls createFolder or createDocument on
\* is a folder.
C17_OnlyFoldersTraversed ==
    \A i \in 1..Len(log) :
        (/\ log[i].by = "upload"
         /\ log[i].call \in {"getTree", "createFolder", "createDocument"}) =>
            /\ log[i].obj \in DOMAIN repo
            /\ repo[log[i].obj].kind = "folder"

------------------------------------------------------------------------------
(* C18 *)

\* C18: has_changed never goes from true to false; an open sets it from the
\* mode ('w' in mode), and to true when the mode has 'a' and the download
\* found no object; every write and writelines call sets it, also one that
\* the local stream then rejects.
C18_HasChangedMonotonic ==
    [][\A h \in Handles :
          /\ handles[h].has_changed => handles'[h].has_changed
          /\ OpeningStep(h) =>
                (handles'[h].has_changed <=>
                    \/ In("w", handles'[h].mode)
                    \/ /\ In("a", handles'[h].mode)
                       /\ \E i \in 1..Len(NewCalls) :
                             /\ NewCalls[i].by = "download"
                             /\ NewCalls[i].res = "NotFound")
          /\ (last'.h = h /\ last'.op \in {"write", "writelines"}) =>
                handles'[h].has_changed
      ]_vars

\* a handle opened for reading only, still open and marked changed by a
\* write that the local stream has rejected
C18_Witness ==
    /\ handles[First].st = "open"
    /\ handles[First].mode = <<"r">>
    /\ handles[First].has_changed
    /\ last = Result("write", First, "IOError", <<>>)

------------------------------------------------------------------------------
(* C19 *)

\* C19: a handle becomes closed only in close() (also when __exit__ calls
\* it) and then stays closed; an operation on a closed handle issues no
\* repository call, leaves the repository as it is and does not bring the
\* temporary directory back.
C19_ClosedIsTerminal ==
    [][\A h \in Handles :
          /\ handles[h].st = "closed" => handles'[h].st = "closed"
          /\ ClosingStep(h) => (last'.h = h /\ last'.op \in {"close", "exit"})
          /\ (handles[h].st = "closed" /\ last'.h = h) =>
                /\ log' = log
                /\ repo' = repo
                /\ tmpdirs' = tmpdirs
      ]_vars

\* a handle that has uploaded in its close and was closed a second time
\* after a write on the closed handle: nothing but the one upload is logged
C19_Witness ==
    /\ handles[First].st = "closed"
    /\ handles[First].has_changed
    /\ handles[First].mode = <<"r">>
    /\ First \notin tmpdirs
    /\ last = Result("close", First, "none", <<>>)
    /\ Len(log) = 4
    /\ log[4].call = "setContentStream" /\ log[4].res = "ok"

------------------------------------------------------------------------------
(* C20 *)

\* C20: a handle opened in mode 'r' or 'rb' issues no call that changes the
\* repository (setContentStream, createFolder, createDocument), whatever is
\* read from it or written to it before it is closed.
C20_ReadModeNeverMutates ==
    \A h \in Handles :
        handles[h].mode \in { <<"r">>, <<"r", "b">> } =>
            \A i \in 1..Len(log) :
                log[i].h = h =>
                    log[i].call \notin
                        {"setContentStream", "createFolder", "createDocument"}

------------------------------------------------------------------------------
(* C21 *)

\* the remote path of handle f holds a document
OnDocument(r, f) ==
    /\ Location(f.name) \in DOMAIN r
    /\ r[Location(f.name)].kind = "document"

\* the content of that document
Remote(r, f) == r[Location(f.name)].content

\* whether file begins with content
BeginsWith(file, content) ==
    /\ Len(content) <= Len(file)
    /\ SubSeq(file, 1, Len(content)) = content

\* C21: a handle opened in an append mode on a path that holds a document
\* with content C starts with C as its local content and unchanged; every
\* write of data D to it puts D after what it holds; its close, when it
\* returns, leaves the document with C followed by all that was written, and
\* after no write it issues no repository call and leaves C.
C21_AppendPreservesContent ==
    [][\A h \in Handles :
          /\ (/\ OpeningStep(h)
              /\ handles'[h].st = "open"
              /\ In("a", handles'[h].mode)
              /\ OnDocument(repo, handles'[h])) =>
                 /\ handles'[h].file = Remote(repo, handles'[h])
                 /\ ~handles'[h].has_changed
          /\ (/\ handles[h].st = "open"
              /\ In("a", handles[h].mode)
              /\ OnDocument(repo, handles[h])) =>
                 /\ BeginsWith(handles[h].file, Remote(repo, handles[h]))
                 /\ ~handles[h].has_changed =>
                       handles[h].file = Remote(repo, handles[h])
                 /\ \A data \in Data :
                       Write(h, data) =>
                          handles'[h].file = handles[h].file \o data
                 /\ \A lines \in Lines :
                       Writelines(h, lines) =>
                          handles'[h].file = handles[h].file \o JoinLines(lines)
                 /\ (ClosingStep(h) /\ last'.res \in {"none", "CallerError"}) =>
                       /\ OnDocument(repo', handles[h])
                       /\ Remote(repo', handles[h]) =
                             Remote(repo, handles[h]) \o
                                SubSeq(handles[h].file,
                                       Len(Remote(repo, handles[h])) + 1,
                                       Len(handles[h].file))
                       /\ ~handles[h].has_changed =>
                             (log' = log /\ repo' = repo)
      ]_vars

\* /f held <<1>>; a handle opened on it in mode 'a' was written <<2>> and
\* closed, and /f holds <<1, 2>>
C21_Witness ==
    /\ handles[First].st = "closed"
    /\ handles[First].mode = <<"a">>
    /\ handles[First].name = <<"/", "f">>
    /\ handles[First].file = <<1, 2>>
    /\ last = Result("close", First, "none", <<>>)
    /\ repo[<< <<"f">> >>] = Document(<<1, 2>>)
    /\ CallsOf(CallsBy(log, First, "download"), "getContentStream") # <<>>
    /\ CallsOf(CallsBy(log, First, "upload"), "setContentStream") # <<>>

====
